---- MODULE Spec2Model ----
(***************************************************************************)
(* Model of assistant-prompts/tools.py: version_ge (the version            *)
(* comparator) and check_package_version (the package inspector).          *)
(*                                                                         *)
(* A Python str is a sequence of one-character strings.  None is the       *)
(* one-element sequence <<"None">>, which no str equals because "None"     *)
(* is not a single character.  Python's True / False are the strings       *)
(* "True" / "False".                                                       *)
(***************************************************************************)
EXTENDS Integers, Sequences, FiniteSets, TLC

VARIABLES
    pc,                    \* position of the running call
    call_version1,         \* version_ge: argument version1 as passed
    call_version2,         \* version_ge: argument version2 as passed
    version1,              \* version_ge: local version1 (rebound at line 6)
    version2,              \* version_ge: local version2 (rebound at line 7)
    parts1,                \* version_ge: local parts1
    parts2,                \* version_ge: local parts2
    result,                \* version_ge: returned value, "None" before it returns
    exc,                   \* the exception in flight, "none" when there is none
    shape,                 \* how the two inputs were built (dev-version inputs only)
    package,               \* check_package_version: argument package
    min_version,           \* check_package_version: argument min_version
    ver,                   \* check_package_version: local ver
    at_least_min_version,  \* check_package_version: local at_least_min_version
    ret,                   \* <<mapping>> once check_package_version returned, else <<>>
    importOutcome,         \* environment: what importlib.import_module(package) does
    distVersion,           \* environment: what importlib.metadata.version(package) does
    geCalls                \* number of times version_ge was entered

vars == <<pc, call_version1, call_version2, version1, version2, parts1, parts2,
          result, exc, shape, package, min_version, ver, at_least_min_version,
          ret, importOutcome, distVersion, geCalls>>

geVars == <<call_version1, call_version2, version1, version2, parts1, parts2, result>>
cpvVars == <<package, min_version, ver, at_least_min_version, ret>>
envVars == <<importOutcome, distVersion, shape>>

----------------------------------------------------------------------------
(* Bounds of the model. *)

\* Largest number of tokens in an input string of the token-built inputs.
MaxLen == 3
\* Largest development number of the dev-version inputs.
MaxDev == 16

----------------------------------------------------------------------------
(* Python values and str operations. *)

None == <<"None">>

Digits == {"0", "1", "2", "3", "4", "5", "6", "7", "8", "9"}

DigitVal(c) ==
    CASE c = "0" -> 0 [] c = "1" -> 1 [] c = "2" -> 2 [] c = "3" -> 3
      [] c = "4" -> 4 [] c = "5" -> 5 [] c = "6" -> 6 [] c = "7" -> 7
      [] c = "8" -> 8 [] c = "9" -> 9

\* s[i:].startswith(old), i counted from 1
MatchAt(s, old, i) ==
    /\ i + Len(old) - 1 <= Len(s)
    /\ SubSeq(s, i, i + Len(old) - 1) = old

RECURSIVE ReplaceFrom(_, _, _, _)
ReplaceFrom(s, old, new, i) ==
    IF i > Len(s) THEN <<>>
    ELSE IF MatchAt(s, old, i)
         THEN new \o ReplaceFrom(s, old, new, i + Len(old))
         ELSE <<s[i]>> \o ReplaceFrom(s, old, new, i + 1)

\* str.replace(old, new) for a non-empty old: leftmost non-overlapping matches
Replace(s, old, new) == ReplaceFrom(s, old, new, 1)

RECURSIVE SplitFrom(_, _, _, _)
SplitFrom(s, sep, i, cur) ==
    IF i > Len(s) THEN <<cur>>
    ELSE IF s[i] = sep
         THEN <<cur>> \o SplitFrom(s, sep, i + 1, <<>>)
         ELSE SplitFrom(s, sep, i + 1, Append(cur, s[i]))

\* str.split(sep) for a one-character sep: always at least one piece
StrSplit(s, sep) == SplitFrom(s, sep, 1, <<>>)

\* the digits of an int literal, after an optional sign
Unsigned(x) == IF Len(x) > 0 /\ x[1] \in {"-", "+"} THEN Tail(x) ELSE x

\* int(x) succeeds: an optional sign and at least one decimal digit.  (Of the
\* characters the inputs are built from; whitespace and '_' are not among them.)
IsIntLiteral(x) ==
    LET u == Unsigned(x)
    IN  /\ Len(u) > 0
        /\ \A i \in 1..Len(u) : u[i] \in Digits

RECURSIVE DigitsValue(_)
DigitsValue(s) ==
    IF Len(s) = 0 THEN 0
    ELSE 10 * DigitsValue(SubSeq(s, 1, Len(s) - 1)) + DigitVal(s[Len(s)])

\* int(x) for an x on which it succeeds
PyInt(x) ==
    IF Len(x) > 0 /\ x[1] = "-" THEN 0 - DigitsValue(Unsigned(x))
    ELSE DigitsValue(Unsigned(x))

----------------------------------------------------------------------------
(* version_ge, lines 4-28. *)

\* Variant: v.split("+")[-1], the wrong end of the split.
DropLocal_LastPiece(v) == StrSplit(v, "+")[Len(StrSplit(v, "+"))]

\* v.split("+")[0], lines 6-7
DropLocal(v) == StrSplit(v, "+")[1]

\* Variant: only '.dev' is replaced, a bare 'dev' is left in place.
split_version_DotDevOnly(v) ==
    StrSplit(Replace(v, <<".", "d", "e", "v">>, <<".">>), ".")

\* split_version, lines 9-13
split_version(v) ==
    StrSplit(Replace(Replace(v, <<".", "d", "e", "v">>, <<".">>),
                     <<"d", "e", "v">>, <<".">>), ".")

\* every int(x) of the comprehension of line 15 / 16 succeeds
ParseOK(v) ==
    LET pieces == split_version(v)
    IN  \A i \in 1..Len(pieces) : IsIntLiteral(pieces[i])

\* [int(x) for x in split_version(v)], line 15 / 16
IntParts(v) ==
    LET pieces == split_version(v)
    IN  [i \in 1..Len(pieces) |-> PyInt(pieces[i])]

\* max(len(parts1), len(parts2)), line 18
max_length(p1, p2) == IF Len(p1) >= Len(p2) THEN Len(p1) ELSE Len(p2)

\* Variant: the zeros are put in front.
PadTo_Left(p, n) == [i \in 1..(n - Len(p)) |-> 0] \o p

\* parts += [0] * (n - len(parts)), lines 19-20 ([0] * k is [] for k <= 0)
PadTo(p, n) == p \o [i \in 1..(n - Len(p)) |-> 0]

\* Variant: equal sequences compare as False (a strict comparison).
RECURSIVE CompareFrom_Strict(_, _, _)
CompareFrom_Strict(p1, p2, i) ==
    IF i > Len(p1) \/ i > Len(p2) THEN "False"
    ELSE IF p1[i] > p2[i] THEN "True"
    ELSE IF p1[i] < p2[i] THEN "False"
    ELSE CompareFrom_Strict(p1, p2, i + 1)

\* the for loop over zip(parts1, parts2) from its i-th pair on, and the
\* return True after it, lines 22-28
RECURSIVE CompareFrom(_, _, _)
CompareFrom(p1, p2, i) ==
    IF i > Len(p1) \/ i > Len(p2) THEN "True"
    ELSE IF p1[i] > p2[i] THEN "True"
    ELSE IF p1[i] < p2[i] THEN "False"
    ELSE CompareFrom(p1, p2, i + 1)

\* the outcome of a whole call version_ge(v1, v2): "True", "False", or
\* "ValueError" when it raises
version_ge(v1, v2) ==
    LET t1 == DropLocal(v1)
        t2 == DropLocal(v2)
    IN  IF ~(ParseOK(t1) /\ ParseOK(t2)) THEN "ValueError"
        ELSE LET p1 == IntParts(t1)
                 p2 == IntParts(t2)
                 n  == max_length(p1, p2)
             IN  CompareFrom(PadTo(p1, n), PadTo(p2, n), 1)

----------------------------------------------------------------------------
(* Inputs. *)

\* The pieces the token-built version strings are concatenated from.
Tokens == {<<"0">>, <<"1">>, <<".">>, <<"d", "e", "v">>, <<"+">>}

RECURSIVE TokenStrings(_)
TokenStrings(n) ==
    IF n = 0 THEN {<<>>}
    ELSE TokenStrings(n - 1)
            \cup {s \o t : s \in TokenStrings(n - 1), t \in Tokens}

\* Every concatenation of at most MaxLen tokens.
VersionStrings == TokenStrings(MaxLen)

DigitChar(k) == <<"0", "1", "2", "3", "4", "5", "6", "7", "8", "9">>[k + 1]

\* str(n) for n >= 0
RECURSIVE ToDigits(_)
ToDigits(n) ==
    IF n < 10 THEN <<DigitChar(n)>>
    ELSE ToDigits(n \div 10) \o <<DigitChar(n % 10)>>

\* The bases, markers and local-build suffixes of the test cases, lines 32-43.
Bases == {<<"0">>, <<"0", ".", "3">>, <<"0", ".", "3", ".", "1">>,
          <<"0", ".", "0", ".", "1">>}
DotDev == <<".", "d", "e", "v">>
BareDev == <<"d", "e", "v">>
Release == <<>>
Locals == {<<>>, <<"+", "g", "8", "3">>}

\* A release (no marker, no dev number) or a development build of a base.
DevForms ==
    {[base |-> b, marker |-> Release, dev |-> 0, local |-> l] :
        b \in Bases, l \in Locals}
    \cup {[base |-> b, marker |-> m, dev |-> n, local |-> l] :
            b \in Bases, m \in {DotDev, BareDev}, n \in 0..MaxDev, l \in Locals}

\* The version string of a form: base, marker and dev number, local suffix.
DevString(f) ==
    f.base \o (IF f.marker = Release THEN <<>> ELSE f.marker \o ToDigits(f.dev))
           \o f.local

\* Installed versions and minimum versions of the package inspector's runs:
\* well-formed ones of the test cases, and malformed ones.
V_0_3_1 == <<"0", ".", "3", ".", "1">>
V_0_3_2 == <<"0", ".", "3", ".", "2">>
V_0_3_1_dev16_g83 ==
    <<"0", ".", "3", ".", "1", ".", "d", "e", "v", "1", "6", "+", "g", "8", "3">>
V_0_3_0dev16 == <<"0", ".", "3", ".", "0", "d", "e", "v", "1", "6">>
V_0_3_dev16_g83 == <<"0", ".", "3", ".", "d", "e", "v", "1", "6", "+", "g", "8", "3">>
V_1_10 == <<"1", ".", "1", "0">>
V_1_0rc1 == <<"1", ".", "0", "r", "c", "1">>
V_0_3_dev == <<"0", ".", "3", ".", "d", "e", "v">>
V_empty == <<>>

WellFormedVersions ==
    {V_0_3_1, V_0_3_2, V_0_3_1_dev16_g83, V_0_3_0dev16, V_0_3_dev16_g83, V_1_10}
MalformedVersions == {V_1_0rc1, V_0_3_dev, V_empty}
PkgVersions == WellFormedVersions \cup MalformedVersions

\* Package names: one that names a package, and the empty name.  (package
\* itself is never taken apart, so it is a plain string.)
Packages == {"shiny", ""}

\* What importlib.import_module(package) may do, line 51.  For the empty name
\* it raises ValueError ("Empty module name").  Otherwise it returns, raises
\* ImportError or its subclass ModuleNotFoundError, or lets an exception of
\* the package's own module-level code through.
ImportOutcomes(p) ==
    IF p = "" THEN {"ValueError"}
    ELSE {"ok", "ImportError", "ModuleNotFoundError", "RuntimeError"}

\* importlib.metadata.version(package), line 53, returns a str or raises
\* PackageNotFoundError, a subclass of ModuleNotFoundError.
PackageNotFound == <<"PackageNotFoundError">>

\* A local that no statement has bound yet.
Unbound == <<"unbound">>

----------------------------------------------------------------------------
(* Initial states. *)

GeEntry(a, b) ==
    /\ pc = "ge_start"
    /\ call_version1 = a
    /\ call_version2 = b
    /\ version1 = a
    /\ version2 = b
    /\ parts1 = <<>>
    /\ parts2 = <<>>
    /\ result = "None"
    /\ exc = "none"
    /\ geCalls = 1

CpvIdle ==
    /\ package = ""
    /\ min_version = None
    /\ ver = Unbound
    /\ at_least_min_version = "unbound"
    /\ ret = <<>>
    /\ importOutcome = "ok"
    /\ distVersion = PackageNotFound

\* version_ge called on two token-built strings.
Init ==
    /\ \E a \in VersionStrings, b \in VersionStrings : GeEntry(a, b)
    /\ shape = <<>>
    /\ CpvIdle

\* version_ge called on two releases / development builds.
InitDev ==
    /\ \E f \in DevForms, g \in DevForms :
          /\ GeEntry(DevString(f), DevString(g))
          /\ shape = <<f, g>>
    /\ CpvIdle

\* check_package_version called in some environment.
InitPkg ==
    /\ pc = "cpv_import"
    /\ package \in Packages
    /\ min_version \in {None} \cup PkgVersions
    /\ importOutcome \in ImportOutcomes(package)
    /\ distVersion \in {PackageNotFound} \cup PkgVersions
    /\ ver = Unbound
    /\ at_least_min_version = "unbound"
    /\ ret = <<>>
    /\ call_version1 = Unbound
    /\ call_version2 = Unbound
    /\ version1 = Unbound
    /\ version2 = Unbound
    /\ parts1 = <<>>
    /\ parts2 = <<>>
    /\ result = "None"
    /\ exc = "none"
    /\ geCalls = 0
    /\ shape = <<>>

----------------------------------------------------------------------------
(* version_ge, step by step. *)

\* lines 6-7
GeTruncate ==
    /\ pc = "ge_start"
    /\ version1' = DropLocal(version1)
    /\ version2' = DropLocal(version2)
    /\ pc' = "ge_parse"
    /\ UNCHANGED <<call_version1, call_version2, parts1, parts2, result, exc,
                   geCalls>>
    /\ UNCHANGED <<cpvVars, envVars>>

\* lines 15-16: both comprehensions, or the ValueError of the first int() that fails
GeParse ==
    /\ pc = "ge_parse"
    /\ IF ParseOK(version1) /\ ParseOK(version2)
       THEN /\ parts1' = IntParts(version1)
            /\ parts2' = IntParts(version2)
            /\ exc' = exc
            /\ pc' = "ge_pad"
       ELSE /\ exc' = "ValueError"
            /\ pc' = "ge_raised"
            /\ UNCHANGED <<parts1, parts2>>
    /\ UNCHANGED <<call_version1, call_version2, version1, version2, result,
                   geCalls>>
    /\ UNCHANGED <<cpvVars, envVars>>

\* lines 18-20
GePad ==
    /\ pc = "ge_pad"
    /\ parts1' = PadTo(parts1, max_length(parts1, parts2))
    /\ parts2' = PadTo(parts2, max_length(parts1, parts2))
    /\ pc' = "ge_compare"
    /\ UNCHANGED <<call_version1, call_version2, version1, version2, result, exc,
                   geCalls>>
    /\ UNCHANGED <<cpvVars, envVars>>

\* lines 22-28
GeCompare ==
    /\ pc = "ge_compare"
    /\ result' = CompareFrom(parts1, parts2, 1)
    /\ pc' = "ge_return"
    /\ UNCHANGED <<call_version1, call_version2, version1, version2, parts1,
                   parts2, exc, geCalls>>
    /\ UNCHANGED <<cpvVars, envVars>>

Next == GeTruncate \/ GeParse \/ GePad \/ GeCompare

Spec == Init /\ [][Next]_vars

SpecDev == InitDev /\ [][Next]_vars

----------------------------------------------------------------------------
(* check_package_version, lines 46-69. *)

\* Variants of the except clause: too narrow, and too wide.
ExceptPackageNotFoundOnly(e) == e = "PackageNotFoundError"
ExceptModuleNotFoundOnly(e) == e \in {"ModuleNotFoundError", "PackageNotFoundError"}
ExceptAnyException(e) == TRUE

\* isinstance(e, ImportError), the except clause of line 59:
\* PackageNotFoundError < ModuleNotFoundError < ImportError
ExceptImportError(e) ==
    e \in {"ImportError", "ModuleNotFoundError", "PackageNotFoundError"}

\* Variant: the comparison is made whatever min_version is.
MinVersionNeverNone(mv) == FALSE

\* min_version is None, line 54
MinVersionIsNone(mv) == mv = None

\* Variant: the arguments the other way round.
GeArguments_Swapped(installed, minimum) == <<minimum, installed>>

\* the arguments of the call of line 57, in order
GeArguments(installed, minimum) == <<installed, minimum>>

\* the mapping of lines 63-69
ResultMapping(p, v, mv, flag) ==
    [language |-> "python", package |-> p, version |-> v, min_version |-> mv,
     at_least_min_version |-> flag]

\* line 51
CpvImport ==
    /\ pc = "cpv_import"
    /\ IF importOutcome = "ok"
       THEN /\ pc' = "cpv_version"
            /\ exc' = exc
       ELSE /\ exc' = importOutcome
            /\ pc' = "cpv_except"
    /\ UNCHANGED <<geVars, cpvVars, envVars, geCalls>>

\* line 53
CpvVersion ==
    /\ pc = "cpv_version"
    /\ IF distVersion = PackageNotFound
       THEN /\ exc' = "PackageNotFoundError"
            /\ pc' = "cpv_except"
            /\ ver' = ver
       ELSE /\ ver' = distVersion
            /\ pc' = "cpv_min_version"
            /\ exc' = exc
    /\ UNCHANGED <<geVars, package, min_version, at_least_min_version, ret,
                   envVars, geCalls>>

\* lines 54-57, up to the entry of version_ge
CpvMinVersion ==
    /\ pc = "cpv_min_version"
    /\ IF MinVersionIsNone(min_version)
       THEN /\ at_least_min_version' = "None"
            /\ pc' = "cpv_return"
            /\ UNCHANGED <<geVars, geCalls>>
       ELSE /\ call_version1' = GeArguments(ver, min_version)[1]
            /\ call_version2' = GeArguments(ver, min_version)[2]
            /\ version1' = GeArguments(ver, min_version)[1]
            /\ version2' = GeArguments(ver, min_version)[2]
            /\ geCalls' = geCalls + 1
            /\ pc' = "ge_start"
            /\ UNCHANGED <<parts1, parts2, result, at_least_min_version>>
    /\ UNCHANGED <<package, min_version, ver, ret, exc, envVars>>

\* line 57, the assignment of the value version_ge returned
CpvAssign ==
    /\ pc = "ge_return"
    /\ at_least_min_version' = result
    /\ pc' = "cpv_return"
    /\ UNCHANGED <<geVars, package, min_version, ver, ret, exc, envVars, geCalls>>

\* lines 59-61: an exception left the try body; the handler runs when the
\* except clause matches it, otherwise it reaches the caller
CpvExcept ==
    /\ pc \in {"cpv_except", "ge_raised"}
    /\ IF ExceptImportError(exc)
       THEN /\ ver' = None
            /\ at_least_min_version' = "None"
            /\ exc' = "none"
            /\ pc' = "cpv_return"
       ELSE /\ pc' = "cpv_propagated"
            /\ UNCHANGED <<ver, at_least_min_version, exc>>
    /\ UNCHANGED <<geVars, package, min_version, ret, envVars, geCalls>>

\* lines 63-69
CpvReturn ==
    /\ pc = "cpv_return"
    /\ ret' = <<ResultMapping(package, ver, min_version, at_least_min_version)>>
    /\ pc' = "cpv_returned"
    /\ UNCHANGED <<geVars, package, min_version, ver, at_least_min_version, exc,
                   envVars, geCalls>>

NextPkg ==
    \/ CpvImport \/ CpvVersion \/ CpvMinVersion
    \/ GeTruncate \/ GeParse \/ GePad \/ GeCompare
    \/ CpvAssign \/ CpvExcept \/ CpvReturn

SpecPkg == InitPkg /\ [][NextPkg]_vars

----------------------------------------------------------------------------
(* Properties of version_ge. *)

GeTerminal == pc \in {"ge_return", "ge_raised"}

\* what the call of version_ge did: the value returned or the exception raised
GeOutcome == IF pc = "ge_raised" THEN exc ELSE result

\* the i-th component of p right-padded with zeros
At(p, i) == IF i <= Len(p) THEN p[i] ELSE 0

\* p >= q in the lexicographic order of the zero-padded sequences
LexGe(p, q) ==
    LET n == IF Len(p) >= Len(q) THEN Len(p) ELSE Len(q)
    IN  \/ \A k \in 1..n : At(p, k) = At(q, k)
        \/ \E k \in 1..n : /\ At(p, k) > At(q, k)
                           /\ \A j \in 1..(k - 1) : At(p, j) = At(q, j)

C2_DevBelowLongerRelease ==
    (/\ pc = "ge_return"
     /\ \/ /\ shape[1].marker = DotDev
           /\ shape[2].marker = Release
           /\ \E z \in 1..9 :
                 shape[2].base = shape[1].base \o <<".", DigitChar(z)>>
        \/ /\ call_version1 = <<"0", ".", "d", "e", "v", "1", "6", "+", "g", "8", "3">>
           /\ call_version2 = <<"0", ".", "0", ".", "1">>)
        => result = "False"

\* the dev number of a form, a release counting as dev number 0
DevNumber(f) == IF f.marker = Release THEN 0 ELSE f.dev

\* C3: for two versions of the same base, each a release or a development
\* build written with '.dev' or 'dev', with or without a local suffix,
\* version_ge returns True exactly when the first dev number is >= the second,
\* a release counting as dev number 0.
C3_SameBaseDevOrder ==
    (shape[1].base = shape[2].base)
        => /\ pc # "ge_raised"
           /\ pc = "ge_return"
                => ((result = "True") <=>
                        DevNumber(shape[1]) >= DevNumber(shape[2]))

\* C3: a release compared with a development build of the same base.
C3_Witness ==
    /\ pc = "ge_return"
    /\ shape[1].base = shape[2].base
    /\ shape[1].marker = Release
    /\ shape[2].marker = BareDev
    /\ shape[2].dev = MaxDev
    /\ result = "False"

\* Texts of a local-build suffix: empty, plain, and one with digits, a dot, a
\* dev marker and a further '+'.
SuffixTexts ==
    {<<>>, <<"g", "8", "3">>, <<"1", ".", "d", "e", "v", "+", "0">>}

\* C4: appending '+' and any suffix text to either argument leaves the outcome
\* of version_ge (the boolean, or the failure) as it is.
C4_LocalSuffixIgnored ==
    GeTerminal =>
        \A s \in SuffixTexts :
            /\ version_ge(call_version1 \o <<"+">> \o s, call_version2) = GeOutcome
            /\ version_ge(call_version1, call_version2 \o <<"+">> \o s) = GeOutcome

\* C4: a call whose first argument already carries a suffix and that returned.
C4_Witness ==
    /\ pc = "ge_return"
    /\ \E i \in 1..Len(call_version1) : call_version1[i] = "+"
    /\ result = "False"

\* C10: when the element-wise comparison is reached, both sequences have the
\* length of the longer parsed one, each keeps its parsed components as its
\* prefix followed only by zeros, and the longer one is unchanged.
C10_PaddedEqualLength ==
    pc \in {"ge_compare", "ge_return"}
        => LET q1 == IntParts(version1)
               q2 == IntParts(version2)
               n  == IF Len(q1) >= Len(q2) THEN Len(q1) ELSE Len(q2)
           IN  /\ Len(parts1) = n
               /\ Len(parts2) = n
               /\ SubSeq(parts1, 1, Len(q1)) = q1
               /\ SubSeq(parts2, 1, Len(q2)) = q2
               /\ \A i \in (Len(q1) + 1)..n : parts1[i] = 0
               /\ \A i \in (Len(q2) + 1)..n : parts2[i] = 0
               /\ Len(q1) >= Len(q2) => parts1 = q1
               /\ Len(q2) >= Len(q1) => parts2 = q2

\* C10: the first sequence was the shorter one and does not start with zero.
C10_Witness ==
    /\ pc = "ge_compare"
    /\ Len(IntParts(version1)) < Len(IntParts(version2))
    /\ parts1[1] # 0

----------------------------------------------------------------------------
(* Properties of check_package_version. *)

CpvTerminal == pc \in {"cpv_returned", "cpv_propagated"}

ImportErrorFamily == {"ImportError", "ModuleNotFoundError", "PackageNotFoundError"}

\* the package is imported and its installed version is found
Found == importOutcome = "ok" /\ distVersion # PackageNotFound

\* a version string with a piece that int() rejects
Malformed(v) == ~ParseOK(DropLocal(v))

C6_NoMinimumIndeterminate ==
    (Found /\ min_version = None)
        => /\ geCalls = 0
           /\ pc # "cpv_propagated"
           /\ pc = "cpv_returned"
                => /\ ret[1].version = distVersion
                   /\ ret[1].at_least_min_version = "None"

\* C6: a return with no minimum and an installed version that does not parse.
C6_Witness ==
    /\ pc = "cpv_returned"
    /\ Found
    /\ min_version = None
    /\ distVersion = V_1_0rc1

\* C7: when the package is found, min_version is given and either version
\* string is malformed, version_ge raises ValueError without reaching its
\* padding or comparison, and check_package_version returns no mapping: the
\* ValueError reaches the caller.
C7_MalformedPropagates ==
    (Found /\ min_version # None /\ (Malformed(distVersion) \/ Malformed(min_version)))
        => /\ pc \notin {"ge_pad", "ge_compare", "ge_return", "cpv_return",
                         "cpv_returned"}
           /\ result = "None"
           /\ ret = <<>>
           /\ pc \in {"ge_raised", "cpv_propagated"} => exc = "ValueError"

\* C7: the ValueError of a malformed min_version has reached the caller.
C7_Witness ==
    /\ pc = "cpv_propagated"
    /\ exc = "ValueError"
    /\ distVersion = V_0_3_1
    /\ min_version = V_0_3_dev

\* C8 as stated: the only exception that reaches the caller is the ValueError
\* of version_ge, and every failure of the import or of the version lookup
\* ends in a mapping with version None and at_least_min_version None.
C8_OnlyValueErrorReachesCaller ==
    /\ pc = "cpv_propagated" => (exc = "ValueError" /\ geCalls = 1)
    /\ (CpvTerminal /\ ~Found)
          => /\ pc = "cpv_returned"
             /\ ret[1].version = None
             /\ ret[1].at_least_min_version = "None"

\* C8, amended: an exception reaches the caller either as the ValueError of
\* version_ge on a malformed version string, or as an exception of the import
\* that is not an ImportError; every ImportError of the import or of the
\* version lookup (ModuleNotFoundError and PackageNotFoundError included)
\* ends in a mapping with version None and at_least_min_version None.
C8_ImportErrorsSwallowedOthersPropagate ==
    /\ pc = "cpv_propagated"
          => \/ /\ exc = "ValueError"
                /\ geCalls = 1
                /\ Found
                /\ Malformed(distVersion) \/ Malformed(min_version)
             \/ /\ exc = importOutcome
                /\ importOutcome \notin ImportErrorFamily \cup {"ok"}
                /\ geCalls = 0
    /\ (importOutcome \in ImportErrorFamily
        \/ (importOutcome = "ok" /\ distVersion = PackageNotFound))
          => /\ pc # "cpv_propagated"
             /\ pc = "cpv_returned"
                  => /\ ret[1].version = None
                     /\ ret[1].at_least_min_version = "None"
    /\ (CpvTerminal /\ importOutcome \notin ImportErrorFamily \cup {"ok"})
          => /\ pc = "cpv_propagated"
             /\ ret = <<>>

\* C8: the ValueError of importing the empty package name has reached the
\* caller, with no min_version given.
C8_Witness ==
    /\ pc = "cpv_propagated"
    /\ package = ""
    /\ exc = "ValueError"
    /\ min_version = None
    /\ geCalls = 0
    /\ ret = <<>>

\* C9: in a returned mapping at_least_min_version is a boolean exactly when
\* the package was found and min_version is not None, and is then the outcome
\* of version_ge(installed version, min_version); otherwise it is None.  The
\* mapping carries language "python" and the arguments package and min_version.
C9_FlagIsComparison ==
    pc = "cpv_returned"
        => LET m == ret[1]
           IN  /\ m.language = "python"
               /\ m.package = package
               /\ m.min_version = min_version
               /\ (m.at_least_min_version \in {"True", "False"})
                     <=> (Found /\ min_version # None)
               /\ (Found /\ min_version # None)
                     => m.at_least_min_version = version_ge(distVersion, min_version)
               /\ ~(Found /\ min_version # None)
                     => m.at_least_min_version = "None"

\* C9: a returned mapping whose flag is False while the comparison the other
\* way round is True.
C9_Witness ==
    /\ pc = "cpv_returned"
    /\ ret[1].at_least_min_version = "False"
    /\ version_ge(min_version, distVersion) = "True"

====
